---- MODULE Spec2Model ----
(***************************************************************************)
(* Chapter of the PDF creator (pdf/creator/chapters.go).                   *)
(*                                                                         *)
(* Two specifications over the same variables:                             *)
(*   Spec     the configuration interface of one chapter: NewChapter,      *)
(*            SetShowNumbering, SetIncludeInTOC and Add;                   *)
(*   SpecGen  Chapter.GeneratePageBlocks on a configured chapter.  The     *)
(*            heading paragraph and the nested drawables are collaborators *)
(*            whose GeneratePageBlocks is outside chapters.go: each of     *)
(*            their results (blocks, context, error) is drawn from         *)
(*            Results, and the position of the chapter's call between two  *)
(*            collaborator calls is held in pc.                            *)
(***************************************************************************)
EXTENDS Integers, Sequences, FiniteSets, TLC

\* ---------------------------------------------------------------- bounds
MaxPrior == 1      \* chapters the creator made before the observed one
MaxAdds == 2       \* Add calls explored by Spec
MaxShows == 2      \* SetShowNumbering calls explored by Spec
MaxContents == 2   \* nested drawables of the chapter explored by SpecGen
MaxBlocks == 2     \* blocks one collaborator call returns
MaxPage == 1       \* page index of a context passed in or returned by a collaborator

\* ---------------------------------------------------------------- values
Nil == "nil"
Errs == {"E1", "E2"}
Titles == {"Intro", "1. A"}

\* Drawable values: the dynamic type and the pointer identity.
Self == [type |-> "Chapter", id |-> 0]
OtherChapter == [type |-> "Chapter", id |-> 1]
AcceptedKinds == <<"paragraph", "image", "Block", "subchapter">>
Accepted == {[type |-> AcceptedKinds[k], id |-> k + 1] : k \in 1..4}
Unsupported == [type |-> "table", id |-> 6]
Drawables == Accepted \cup {Self, OtherChapter, Unsupported}

\* DrawContext: the page index (the cursor fields travel with it untouched).
CtxSet == [Page : 0..MaxPage]
\* What one collaborator's GeneratePageBlocks returns: nb blocks, a context, an error.
Results == [nb : 0..MaxBlocks, ctx : CtxSet, err : {Nil} \cup Errs]

VARIABLES
    chapters,       \* Creator.chapters
    toc,            \* the creator's TableOfContents: sequence of entries
    number, title, heading, contents, showNumbering, includeInTOC,  \* Chapter fields
    pc,             \* "new" | "idle" | "heading" | "item" | "done" | "panic"
    ctx, blocks, idx, ret,   \* locals of GeneratePageBlocks and its return values
    args,           \* history: the arguments of the Add calls so far
    shows,          \* history: the arguments of the SetShowNumbering calls so far
    ctxIn, toc0,    \* history: the context passed in, the TOC when the call began
    hres, given, got,  \* history: heading result; context given to / result of each item
    twin            \* the same call replayed with includeInTOC negated

chapVars == <<number, title, heading, contents, showNumbering, includeInTOC>>
genVars == <<ctx, blocks, idx, ret, ctxIn, toc0, hres, given, got, twin>>
vars == <<chapters, toc, chapVars, pc, genVars, args, shows>>

\* fmt.Sprintf("%d. %s", n, t)
Sprintf(n, t) == ToString(n) \o ". " \o t

NoCtx == [Page |-> 0]
NoRet == [blocks |-> <<>>, ctx |-> NoCtx, err |-> Nil]
NoRes == [nb |-> 0, ctx |-> NoCtx, err |-> Nil]
NoRun == [pc |-> "idle", ctx |-> NoCtx, blocks |-> <<>>, idx |-> 0, ret |-> NoRet, toc |-> <<>>]

GenIdle ==
    /\ ctx = NoCtx /\ blocks = <<>> /\ idx = 0 /\ ret = NoRet
    /\ ctxIn = NoCtx /\ toc0 = <<>> /\ hres = NoRes /\ given = <<>> /\ got = <<>>
    /\ twin = NoRun

\* ------------------------------------------------- configuration (Spec)
Init ==
    /\ chapters \in 0..MaxPrior
    /\ toc = <<>>
    /\ number = 0 /\ title = "" /\ heading = [text |-> ""] /\ contents = <<>>
    /\ showNumbering = FALSE /\ includeInTOC = FALSE
    /\ pc = "new"
    /\ args = <<>> /\ shows = <<>>
    /\ GenIdle

NewChapter(t) ==
    /\ pc = "new"
    /\ chapters' = chapters + 1
    /\ number' = chapters + 1
    /\ title' = t
    /\ showNumbering' = TRUE
    /\ includeInTOC' = TRUE
    /\ heading' = [text |-> Sprintf(chapters + 1, t)]
    /\ contents' = <<>>
    /\ pc' = "idle"
    /\ UNCHANGED <<toc, genVars, args, shows>>

\* Variant: the numbered branch also formats the bare title.
SetShowNumberingBareTitle(show) ==
    /\ pc = "idle"
    /\ Len(shows) < MaxShows
    /\ heading' = [heading EXCEPT !.text = title]
    /\ showNumbering' = show
    /\ shows' = Append(shows, show)
    /\ UNCHANGED <<chapters, toc, number, title, contents, includeInTOC, pc, genVars, args>>

SetShowNumbering(show) ==
    /\ pc = "idle"
    /\ Len(shows) < MaxShows
    /\ heading' = [heading EXCEPT !.text = IF show THEN Sprintf(number, title) ELSE title]
    /\ showNumbering' = show
    /\ shows' = Append(shows, show)
    /\ UNCHANGED <<chapters, toc, number, title, contents, includeInTOC, pc, genVars, args>>

SetIncludeInTOC(b) ==
    /\ pc = "idle"
    /\ includeInTOC' = b
    /\ UNCHANGED <<chapters, toc, number, title, heading, contents, showNumbering, pc, genVars, args, shows>>

\* Variant: the type switch lacks the *Chapter case and appends it.
AddToNoChapterCase(cts, d) ==
    IF d = Self THEN cts
    ELSE IF d.type \in {"Chapter", "paragraph", "image", "Block", "subchapter"} THEN Append(cts, d)
    ELSE cts

\* The contents after chap.Add(d).
AddTo(cts, d) ==
    IF d = Self THEN cts
    ELSE IF d.type = "Chapter" THEN cts
    ELSE IF d.type \in {"paragraph", "image", "Block", "subchapter"} THEN Append(cts, d)
    ELSE cts

Add(d) ==
    /\ pc = "idle"
    /\ Len(args) < MaxAdds
    /\ contents' = AddTo(contents, d)
    /\ args' = Append(args, d)
    /\ UNCHANGED <<chapters, toc, number, title, heading, showNumbering, includeInTOC, pc, genVars, shows>>

Next ==
    \/ \E t \in Titles : NewChapter(t)
    \/ \E show \in BOOLEAN : SetShowNumbering(show)
    \/ \E b \in BOOLEAN : SetIncludeInTOC(b)
    \/ \E d \in Drawables : Add(d)

Spec == Init /\ [][Next]_vars

\* ------------------------------------------- GeneratePageBlocks (SpecGen)
\* The drawable a configured chapter holds at position i.
AcceptedAt(i) == [type |-> AcceptedKinds[((i - 1) % 4) + 1], id |-> ((i - 1) % 4) + 2]

RECURSIVE AddAll(_, _)
AddAll(cts, ds) == IF ds = <<>> THEN cts ELSE AddAll(AddTo(cts, Head(ds)), Tail(ds))

\* TableOfContents.add(title, number, level, page)
TocAdd(t, ttl, num, level, page) ==
    Append(t, [title |-> ttl, number |-> num, level |-> level, page |-> page])

\* Block.mergeBlocks: the receiver absorbs the other block's contents.
mergeBlocks(blk, toAdd) == blk \o toAdd

\* The nb blocks the drawable at position src returns (src = 0: the heading),
\* each holding its own piece of that drawable.
NewBlocks(src, nb) == [j \in 1..nb |-> <<[src |-> src, part |-> j]>>]

Returned(s, b, c, e) ==
    [s EXCEPT !.pc = "done", !.ret = [blocks |-> b, ctx |-> c, err |-> e]]

\* Variant: the TOC entry is added before the overflow advance.
AfterHeadingTocBeforeAdvance(s, flag, r) ==
    IF r.err # Nil
    THEN Returned([s EXCEPT !.blocks = NewBlocks(0, r.nb), !.ctx = r.ctx],
                  NewBlocks(0, r.nb), r.ctx, r.err)
    ELSE LET c == IF r.nb > 1 THEN [r.ctx EXCEPT !.Page = @ + 1] ELSE r.ctx
             t == IF flag THEN TocAdd(s.toc, title, number, 0, r.ctx.Page) ELSE s.toc
             s1 == [s EXCEPT !.blocks = NewBlocks(0, r.nb), !.ctx = c, !.toc = t]
         IN  IF Len(contents) = 0
             THEN Returned(s1, s1.blocks, s1.ctx, Nil)
             ELSE [s1 EXCEPT !.pc = "item", !.idx = 1]

\* Variant: the overflow test is len(blocks) >= 1.
AfterHeadingAdvanceOnOne(s, flag, r) ==
    IF r.err # Nil
    THEN Returned([s EXCEPT !.blocks = NewBlocks(0, r.nb), !.ctx = r.ctx],
                  NewBlocks(0, r.nb), r.ctx, r.err)
    ELSE LET c == IF r.nb >= 1 THEN [r.ctx EXCEPT !.Page = @ + 1] ELSE r.ctx
             t == IF flag THEN TocAdd(s.toc, title, number, 0, c.Page) ELSE s.toc
             s1 == [s EXCEPT !.blocks = NewBlocks(0, r.nb), !.ctx = c, !.toc = t]
         IN  IF Len(contents) = 0
             THEN Returned(s1, s1.blocks, s1.ctx, Nil)
             ELSE [s1 EXCEPT !.pc = "item", !.idx = 1]

\* Variant: the TOC entry is added whatever includeInTOC says.
AfterHeadingTocAlways(s, flag, r) ==
    IF r.err # Nil
    THEN Returned([s EXCEPT !.blocks = NewBlocks(0, r.nb), !.ctx = r.ctx],
                  NewBlocks(0, r.nb), r.ctx, r.err)
    ELSE LET c == IF r.nb > 1 THEN [r.ctx EXCEPT !.Page = @ + 1] ELSE r.ctx
             t == TocAdd(s.toc, title, number, 0, c.Page)
             s1 == [s EXCEPT !.blocks = NewBlocks(0, r.nb), !.ctx = c, !.toc = t]
         IN  IF Len(contents) = 0
             THEN Returned(s1, s1.blocks, s1.ctx, Nil)
             ELSE [s1 EXCEPT !.pc = "item", !.idx = 1]

\* Lines 159-172: the heading's GeneratePageBlocks returned r; up to the
\* first iteration of the loop over chap.contents (or the final return).
AfterHeading(s, flag, r) ==
    IF r.err # Nil
    THEN Returned([s EXCEPT !.blocks = NewBlocks(0, r.nb), !.ctx = r.ctx],
                  NewBlocks(0, r.nb), r.ctx, r.err)
    ELSE LET c == IF r.nb > 1 THEN [r.ctx EXCEPT !.Page = @ + 1] ELSE r.ctx
             t == IF flag THEN TocAdd(s.toc, title, number, 0, c.Page) ELSE s.toc
             s1 == [s EXCEPT !.blocks = NewBlocks(0, r.nb), !.ctx = c, !.toc = t]
         IN  IF Len(contents) = 0
             THEN Returned(s1, s1.blocks, s1.ctx, Nil)
             ELSE [s1 EXCEPT !.pc = "item", !.idx = 1]

\* Variant: on an item's error the item's own context c is returned.
AfterItemReturnsItsCtx(s, r) ==
    LET next(s1) == IF s1.idx = Len(contents)
                    THEN Returned(s1, s1.blocks, s1.ctx, Nil)
                    ELSE [s1 EXCEPT !.idx = @ + 1]
    IN  IF r.err # Nil THEN Returned(s, s.blocks, r.ctx, r.err)
        ELSE IF r.nb < 1 THEN next(s)
        ELSE IF Len(s.blocks) = 0 THEN [s EXCEPT !.pc = "panic"]
        ELSE LET nbs == NewBlocks(s.idx, r.nb)
                 n == Len(s.blocks)
                 merged == [s.blocks EXCEPT ![n] = mergeBlocks(@, nbs[1])]
             IN  next([s EXCEPT !.blocks = merged \o Tail(nbs), !.ctx = r.ctx])

\* Variant: ctx = c is done before the zero-blocks test.
AfterItemAdoptsAlways(s, r) ==
    LET next(s1) == IF s1.idx = Len(contents)
                    THEN Returned(s1, s1.blocks, s1.ctx, Nil)
                    ELSE [s1 EXCEPT !.idx = @ + 1]
    IN  IF r.err # Nil THEN Returned(s, s.blocks, s.ctx, r.err)
        ELSE IF r.nb < 1 THEN next([s EXCEPT !.ctx = r.ctx])
        ELSE IF Len(s.blocks) = 0 THEN [s EXCEPT !.pc = "panic"]
        ELSE LET nbs == NewBlocks(s.idx, r.nb)
                 n == Len(s.blocks)
                 merged == [s.blocks EXCEPT ![n] = mergeBlocks(@, nbs[1])]
             IN  next([s EXCEPT !.blocks = merged \o Tail(nbs), !.ctx = r.ctx])

\* Variant: on an item's error the zero DrawContext{} is returned.
AfterItemReturnsZeroCtx(s, r) ==
    LET next(s1) == IF s1.idx = Len(contents)
                    THEN Returned(s1, s1.blocks, s1.ctx, Nil)
                    ELSE [s1 EXCEPT !.idx = @ + 1]
    IN  IF r.err # Nil THEN Returned(s, s.blocks, [Page |-> 0], r.err)
        ELSE IF r.nb < 1 THEN next(s)
        ELSE IF Len(s.blocks) = 0 THEN [s EXCEPT !.pc = "panic"]
        ELSE LET nbs == NewBlocks(s.idx, r.nb)
                 n == Len(s.blocks)
                 merged == [s.blocks EXCEPT ![n] = mergeBlocks(@, nbs[1])]
             IN  next([s EXCEPT !.blocks = merged \o Tail(nbs), !.ctx = r.ctx])

\* Lines 173-188: the GeneratePageBlocks of the drawable at s.idx returned r;
\* up to the next iteration (or the return, or the index panic of line 182).
AfterItem(s, r) ==
    LET next(s1) == IF s1.idx = Len(contents)
                    THEN Returned(s1, s1.blocks, s1.ctx, Nil)
                    ELSE [s1 EXCEPT !.idx = @ + 1]
    IN  IF r.err # Nil THEN Returned(s, s.blocks, s.ctx, r.err)
        ELSE IF r.nb < 1 THEN next(s)
        ELSE IF Len(s.blocks) = 0 THEN [s EXCEPT !.pc = "panic"]
        ELSE LET nbs == NewBlocks(s.idx, r.nb)
                 n == Len(s.blocks)
                 merged == [s.blocks EXCEPT ![n] = mergeBlocks(@, nbs[1])]
             IN  next([s EXCEPT !.blocks = merged \o Tail(nbs), !.ctx = r.ctx])

Run == [pc |-> pc, ctx |-> ctx, blocks |-> blocks, idx |-> idx, ret |-> ret, toc |-> toc]

Becomes(s) ==
    /\ pc' = s.pc /\ ctx' = s.ctx /\ blocks' = s.blocks
    /\ idx' = s.idx /\ ret' = s.ret /\ toc' = s.toc

InitGen ==
    /\ chapters \in {1, MaxPrior + 1}
    /\ number = chapters
    /\ title = "Intro"
    /\ heading = [text |-> Sprintf(number, title)]
    /\ showNumbering = TRUE /\ includeInTOC = TRUE
    /\ \E n \in 0..MaxContents :
          /\ args = [i \in 1..n |-> AcceptedAt(i)]
          /\ contents = AddAll(<<>>, args)
    /\ toc = [k \in 1..(chapters - 1) |-> [title |-> "Intro", number |-> k, level |-> 0, page |-> 0]]
    /\ pc = "idle"
    /\ shows = <<>>
    /\ GenIdle

\* chap.GeneratePageBlocks(c) is entered: the heading is asked for its blocks.
GeneratePageBlocks(c) ==
    /\ pc = "idle"
    /\ ctxIn' = c /\ toc0' = toc
    /\ ctx' = c /\ pc' = "heading"
    /\ twin' = [Run EXCEPT !.pc = "heading", !.ctx = c]
    /\ UNCHANGED <<chapters, toc, chapVars, blocks, idx, ret, hres, given, got, args, shows>>

HeadingReturns(r) ==
    /\ pc = "heading"
    /\ Becomes(AfterHeading(Run, includeInTOC, r))
    /\ twin' = IF twin.pc = "heading" THEN AfterHeading(twin, ~includeInTOC, r) ELSE twin
    /\ hres' = r
    /\ UNCHANGED <<chapters, chapVars, ctxIn, toc0, given, got, args, shows>>

ItemReturns(r) ==
    /\ pc = "item"
    /\ Becomes(AfterItem(Run, r))
    /\ twin' = IF twin.pc = "item" THEN AfterItem(twin, r) ELSE twin
    /\ given' = Append(given, ctx)
    /\ got' = Append(got, r)
    /\ UNCHANGED <<chapters, chapVars, ctxIn, toc0, hres, args, shows>>

NextGen ==
    \/ \E b \in BOOLEAN : SetIncludeInTOC(b)
    \/ \E c \in CtxSet : GeneratePageBlocks(c)
    \/ \E r \in Results : HeadingReturns(r)
    \/ \E r \in Results : ItemReturns(r)

SpecGen == InitGen /\ [][NextGen]_vars

\* ------------------------------------------------------------ properties
IsAccepted(d) == d.type \in {"paragraph", "image", "Block", "subchapter"}

\* The heading's generation has returned.
InCall == pc \in {"item", "done", "panic"}
HeadingOK == InCall /\ hres.err = Nil

\* The context after the heading-overflow advance.
PostHeadingCtx == [Page |-> hres.ctx.Page + (IF hres.nb > 1 THEN 1 ELSE 0)]

\* The contexts handed to the nested items so far, the one in flight included.
Handed == given \o (IF pc = "item" THEN <<ctx>> ELSE <<>>)

RECURSIVE Flatten(_)
Flatten(bs) == IF bs = <<>> THEN <<>> ELSE Head(bs) \o Flatten(Tail(bs))

Pieces(src, nb) == [j \in 1..nb |-> [src |-> src, part |-> j]]

\* Every piece of the heading and of items 1..k, in order.
RECURSIVE PiecesUpTo(_)
PiecesUpTo(k) == IF k = 0 THEN Pieces(0, hres.nb) ELSE PiecesUpTo(k - 1) \o Pieces(k, got[k].nb)

\* Blocks that items 1..k add beyond their merged first block.
RECURSIVE ExtraUpTo(_)
ExtraUpTo(k) ==
    IF k = 0 THEN 0
    ELSE ExtraUpTo(k - 1) + (IF got[k].nb > 1 THEN got[k].nb - 1 ELSE 0)

\* bs is the heading's blocks with items 1..k folded in: every piece is there
\* once and in order, a block opens with a heading piece or an item's later
\* block, and only first blocks of items follow inside a block.
Folded(bs, k) ==
    /\ Flatten(bs) = PiecesUpTo(k)
    /\ Len(bs) = hres.nb + ExtraUpTo(k)
    /\ \A b \in 1..Len(bs) :
          /\ Len(bs[b]) >= 1
          /\ bs[b][1].src = 0 \/ bs[b][1].part >= 2
          /\ \A j \in 2..Len(bs[b]) : bs[b][j].src >= 1 /\ bs[b][j].part = 1

\* The context of the last of items 1..k that produced blocks, else the
\* context after the heading step.
RECURSIVE LastGoodCtx(_)
LastGoodCtx(k) ==
    IF k = 0 THEN PostHeadingCtx
    ELSE IF got[k].nb >= 1 THEN got[k].ctx ELSE LastGoodCtx(k - 1)

\* C1: when the k-th nested item's generation returns an error, the call
\* returns that error, the blocks of the heading and items 1..k-1 (nothing of
\* item k), and the context left by the last earlier item that produced
\* blocks; the loop stopped at k.
C1_ItemErrorReturn ==
    (pc = "done" /\ hres.err = Nil /\ ret.err # Nil) =>
        LET k == Len(got) IN
        /\ k >= 1 /\ idx = k /\ Len(given) = k
        /\ ret.err = got[k].err
        /\ \A i \in 1..(k - 1) : got[i].err = Nil
        /\ Folded(ret.blocks, k - 1)
        /\ ret.ctx = LastGoodCtx(k - 1)

C1_Witness ==
    /\ pc = "done" /\ hres.err = Nil /\ ret.err = "E2"
    /\ Len(got) = 2 /\ got[1].nb = 2 /\ got[2].nb >= 1
    /\ got[2].ctx # got[1].ctx /\ ret.ctx = got[1].ctx
    /\ Len(ret.blocks) = hres.nb + 1

TocEntry(page) == [title |-> title, number |-> number, level |-> 0, page |-> page]

\* C2 as stated: with includeInTOC, every finished call has added exactly one
\* TOC entry (title, number, level 0, page after the heading step), heading
\* errors included.
C2_OneEntryEveryCall ==
    (includeInTOC /\ pc = "done") =>
        /\ Len(toc) = Len(toc0) + 1
        /\ toc[Len(toc)] = TocEntry(PostHeadingCtx.Page)

\* C2 amended: with includeInTOC, a call whose heading generation returned no
\* error has added exactly one TOC entry (title, number, level 0, page after
\* the heading-overflow advance), whatever the nested items return; a call
\* whose heading generation returned an error has added none.
C2_OneEntryUnlessHeadingFails ==
    includeInTOC =>
        /\ HeadingOK => toc = Append(toc0, TocEntry(PostHeadingCtx.Page))
        /\ (pc = "heading" \/ (InCall /\ hres.err # Nil)) => toc = toc0

C2_Witness ==
    /\ includeInTOC /\ pc = "done" /\ hres.err = Nil /\ hres.nb = 2
    /\ ret.err # Nil
    /\ Len(toc0) = 1 /\ Len(toc) = 2 /\ toc[2].page = hres.ctx.Page + 1

\* The page the chapter registered and handed to its first item.
UsesPage(p) ==
    /\ includeInTOC => toc[Len(toc)].page = p
    /\ Len(Handed) >= 1 => Handed[1].Page = p

\* C3 as stated: after a heading of more than one block the page used is one
\* more than the page of the context passed in, whatever context the heading
\* returned.
C3_OneMoreThanPassedIn ==
    (HeadingOK /\ hres.nb > 1) => UsesPage(ctxIn.Page + 1)

\* C3 amended: after a heading of more than one block the page used for the
\* TOC entry and the first item is one more than the page of the context the
\* heading's generation returned; after a heading of at most one block it is
\* the page the heading returned.
C3_OneMoreThanHeadingReturned ==
    HeadingOK => UsesPage(IF hres.nb > 1 THEN hres.ctx.Page + 1 ELSE hres.ctx.Page)

C3_Witness ==
    /\ HeadingOK /\ hres.nb = 2 /\ hres.ctx.Page # ctxIn.Page
    /\ includeInTOC /\ Len(given) >= 1
    /\ given[1].Page = hres.ctx.Page + 1 /\ toc[Len(toc)].page = hres.ctx.Page + 1

\* C4: the contents are the Add arguments of an accepted kind, in order; the
\* chapter itself and any other Chapter are never among them.
C4_ContentsAreAcceptedArgs ==
    pc = "idle" =>
        /\ contents = SelectSeq(args, IsAccepted)
        /\ \A i \in 1..Len(contents) : contents[i] # Self /\ contents[i].type # "Chapter"

C4_Witness ==
    /\ Len(args) = 2 /\ IsAccepted(args[1]) /\ args[2] \in {Self, OtherChapter}
    /\ contents = <<args[1]>>

\* No generation of this call has returned an error.
NoErrorYet == HeadingOK /\ \A i \in 1..Len(got) : got[i].err = Nil

\* C5: in a call without errors the accumulated blocks are the heading's
\* blocks with every item generated so far folded in: an item of zero blocks
\* adds nothing, any other item's first block is merged into the last block
\* and its remaining blocks are appended.
C5_EveryItemFolded ==
    NoErrorYet => Folded(blocks, Len(got))

\* The same, for the calls in which every merge found a block to merge into.
C5_FoldedWhenTargetExists ==
    (NoErrorYet /\ pc # "panic") => Folded(blocks, Len(got))

\* C6 as stated: item i+1 is generated with the context item i returned.
C6_NextGetsReturnedCtx ==
    /\ Len(Handed) >= 1 => Handed[1] = PostHeadingCtx
    /\ \A i \in 1..(Len(Handed) - 1) : Handed[i + 1] = got[i].ctx

\* C6 amended: item 1 is generated with the context after the heading step;
\* item i+1 with the context item i returned when item i returned at least
\* one block, and with the context item i was itself given when item i
\* returned zero blocks.
C6_NextGetsAdoptedCtx ==
    /\ Len(Handed) >= 1 => Handed[1] = PostHeadingCtx
    /\ \A i \in 1..(Len(Handed) - 1) :
          Handed[i + 1] = IF got[i].nb >= 1 THEN got[i].ctx ELSE Handed[i]

C6_Witness ==
    /\ Len(given) = 2
    /\ got[1].nb = 0 /\ got[1].ctx # given[1] /\ given[2] = given[1]

\* The pages of the contexts of the call, in the order they were used.
PagesSeen ==
    <<ctxIn.Page>> \o [i \in 1..Len(Handed) |-> Handed[i].Page]
        \o (IF pc = "done" THEN <<ret.ctx.Page>> ELSE <<>>)

NonDecreasing(ps) == \A i \in 1..(Len(ps) - 1) : ps[i] <= ps[i + 1]

\* Every context the chapter adopted came back with a page not lower than
\* the page its collaborator was given.
AdoptedNotLower ==
    /\ InCall => hres.ctx.Page >= ctxIn.Page
    /\ \A i \in 1..Len(got) :
          (got[i].err = Nil /\ got[i].nb >= 1) => got[i].ctx.Page >= given[i].Page

C8_FlagOnlyAffectsToc ==
    pc \in {"heading", "item", "done", "panic"} =>
        /\ twin.pc = pc /\ twin.idx = idx
        /\ twin.ctx = ctx /\ twin.blocks = blocks /\ twin.ret = ret
        /\ IF includeInTOC THEN twin.toc = toc0 ELSE toc = toc0

C8_Witness ==
    /\ pc = "done" /\ ~includeInTOC /\ ret.err = Nil
    /\ Len(ret.blocks) = 3 /\ twin.ret = ret
    /\ toc = toc0 /\ Len(twin.toc) = Len(toc0) + 1

\* C9: the heading text is "{number}. {title}" when showNumbering is set and
\* "{title}" when it is not, and a SetShowNumbering call changes neither
\* number, title, contents nor includeInTOC.
C9_HeadingText ==
    /\ [](pc = "idle" =>
            heading.text = IF showNumbering THEN ToString(number) \o ". " \o title ELSE title)
    /\ [][shows' # shows => UNCHANGED <<number, title, contents, includeInTOC>>]_vars

C9_Witness ==
    /\ shows = <<FALSE, TRUE>> /\ number = 2 /\ title = "1. A"
    /\ heading.text = "2. 1. A" /\ Len(contents) = 1 /\ ~includeInTOC

\* C10: a nested item that returned at least one block (and no error) found
\* the accumulated blocks non-empty, so that its first block was merged.
C10_MergeHasTarget ==
    \A i \in 1..Len(got) :
        (hres.err = Nil /\ got[i].err = Nil /\ got[i].nb >= 1) => Len(blocks) >= 1

====
